---- MODULE Spec2Model ----
(***************************************************************************)
(* Model of the smolagents instrumentation wrappers                        *)
(* (openinference/instrumentation/smolagents/_wrappers.py):                *)
(*   - _flatten, the attribute flattener;                                  *)
(*   - _get_input_value / inspect.Signature.bind, the argument binder;     *)
(*   - the four span wrappers _RunWrapper, _StepWrapper, _ModelWrapper and *)
(*     _ToolCallWrapper, as a call stack of interceptions.                 *)
(***************************************************************************)
EXTENDS Integers, Sequences, FiniteSets, TLC

VARIABLES
    fm,       \* the mapping handed to _flatten
    fres,     \* what dict(_flatten(fm)) observes: [err, out]
    bsig,     \* the signature of the method given to _get_input_value
    bargs,    \* its positional arguments, a sequence of values
    bkwargs,  \* its keyword arguments, a sequence of <<name, value>> in call order
    bres,     \* what _get_input_value returns: [err, map, json]
    stack,    \* the interceptions in progress, outermost first: a sequence of frames
    current,  \* the tracer's current-span stack: the stack positions whose span is current
    agentTask, \* agent.task, the task text the agent object stores
    ev,       \* the value handed to json.dumps(..., cls=SafeJSONEncoder)
    eres,     \* what the encoding observes: [err, out]
    largs,    \* the bound arguments of a model call, a sequence of <<name, value>>
    lmodel,   \* getattr(model, "kwargs", {}): the model's stored keyword configuration
    lres,     \* the attributes computed from them: [messages, parameters]
    agent,    \* the agent a run is intercepted on: model, budget, tools, managed agents
    ares      \* what the Run wrapper computes from it: [attributes, managed]

flattenVars == <<fm, fres>>
bindVars == <<bsig, bargs, bkwargs, bres>>
wrapVars == <<stack, current, agentTask>>
encodeVars == <<ev, eres>>
llmVars == <<largs, lmodel, lres>>
agentVars == <<agent, ares>>
vars == <<flattenVars, bindVars, wrapVars, encodeVars, llmVars, agentVars>>

(***************************************************************************)
(* Bounds of the model.                                                    *)
(***************************************************************************)
MaxNodes == 5
MaxArgs == 2
MaxKwargs == 2
MaxEncodeNodes == 3
MaxMessages == 2
MaxManaged == 2

(***************************************************************************)
(* Python values.  Every value is a record [t, v, items]:                  *)
(*   t = "object" an object json cannot serialize; v tells whether it has  *)
(*                no `dict` attribute ("plain"), a `dict` method that      *)
(*                returns the mapping with the entries items ("exports"),  *)
(*                or a `dict` method that raises ("raises")                *)
(*   t = "none"   None                                                     *)
(*   t = "scalar" a str/int scalar with text v ("" is the falsy scalar)    *)
(*   t = "enum"   an Enum member whose .value is the scalar v              *)
(*   t = "map"    a Mapping; items is the sequence of <<key, value>>       *)
(*   t = "list"   a List; items is the sequence of <<element>>             *)
(***************************************************************************)
None == [t |-> "none", v |-> "", items |-> <<>>]
Scalar(s) == [t |-> "scalar", v |-> s, items |-> <<>>]
EnumMember(s) == [t |-> "enum", v |-> s, items |-> <<>>]
Map(its) == [t |-> "map", v |-> "", items |-> its]
List(its) == [t |-> "list", v |-> "", items |-> its]
Object(kind, its) == [t |-> "object", v |-> kind, items |-> its]

Keys == {"a", "b"}

\* bool(value): what `if not mapping` tests
Truthy(value) ==
    CASE value.t = "none" -> FALSE
      [] value.t = "scalar" -> value.v # ""
      [] value.t = "enum" -> TRUE
      [] OTHER -> Len(value.items) > 0

(***************************************************************************)
(* _flatten.  The generator is consumed whole by dict(...), so its result  *)
(* is the sequence of pairs it yields, or an error when `.items()` is      *)
(* called on a value that has none.                                        *)
(***************************************************************************)
Yield(out) == [err |-> FALSE, out |-> out]
Raise(out) == [err |-> TRUE, out |-> out]
Cat(r1, r2) == IF r1.err THEN r1 ELSE [err |-> r2.err, out |-> r1.out \o r2.out]

IsAbsentNever(value) == FALSE
IsAbsent(value) == value.t = "none"

SubKey(key, sub_key) == key \o "." \o sub_key

IndexedKeyFromOne(key, index, sub_key) == key \o "." \o ToString(index + 1) \o "." \o sub_key
IndexedKey(key, index, sub_key) == key \o "." \o ToString(index) \o "." \o sub_key

AnyMapping(value) == \E i \in 1..Len(value.items) : value.items[i][1].t = "map"

RECURSIVE Flatten(_)
RECURSIVE FlattenItems(_, _)
RECURSIVE FlattenList(_, _, _)

PrefixAll(key, r) ==
    [err |-> r.err, out |-> [i \in 1..Len(r.out) |-> <<SubKey(key, r.out[i][1]), r.out[i][2]>>]]

IndexAll(key, index, r) ==
    [err |-> r.err,
     out |-> [i \in 1..Len(r.out) |-> <<IndexedKey(key, index, r.out[i][1]), r.out[i][2]>>]]

FlattenEntry(key, value) ==
    IF IsAbsent(value) THEN Yield(<<>>)
    ELSE IF value.t = "map" THEN PrefixAll(key, Flatten(value))
    ELSE IF value.t = "list" /\ AnyMapping(value) THEN FlattenList(key, value.items, 1)
    ELSE IF value.t = "enum" THEN Yield(<< <<key, Scalar(value.v)>> >>)
    ELSE Yield(<< <<key, value>> >>)

\* enumerate(value): element number i of the sequence has index i - 1
FlattenList(key, elems, i) ==
    IF i > Len(elems) THEN Yield(<<>>)
    ELSE Cat(IndexAll(key, i - 1, Flatten(elems[i][1])), FlattenList(key, elems, i + 1))

FlattenItems(items, i) ==
    IF i > Len(items) THEN Yield(<<>>)
    ELSE Cat(FlattenEntry(items[i][1], items[i][2]), FlattenItems(items, i + 1))

Flatten(mapping) ==
    IF ~Truthy(mapping) THEN Yield(<<>>)
    ELSE IF mapping.t # "map" THEN Raise(<<>>)
    ELSE FlattenItems(mapping.items, 1)

(***************************************************************************)
(* The mappings _flatten is applied to: every nesting of mappings, lists,  *)
(* scalars, enumeration members and None with at most MaxNodes nodes,      *)
(* grown one entry or element at a time.                                   *)
(***************************************************************************)
RECURSIVE NodeCount(_)
RECURSIVE SumCounts(_, _)
SumCounts(items, i) ==
    IF i > Len(items) THEN 0
    ELSE 1 + NodeCount(items[i][Len(items[i])]) + SumCounts(items, i + 1)
NodeCount(value) == SumCounts(value.items, 1)

Child(value, i) == value.items[i][Len(value.items[i])]

\* paths (sequences of item positions) to the mappings and lists inside value
RECURSIVE Containers(_)
Containers(value) ==
    IF value.t \notin {"map", "list"} THEN {}
    ELSE {<<>>} \cup UNION { { <<i>> \o p : p \in Containers(Child(value, i)) }
                             : i \in 1..Len(value.items) }

RECURSIVE At(_, _)
At(value, path) == IF path = <<>> THEN value ELSE At(Child(value, path[1]), Tail(path))

KeysOf(mapping) == { mapping.items[i][1] : i \in 1..Len(mapping.items) }

RECURSIVE Append1(_, _, _)
Append1(value, path, item) ==
    IF path = <<>> THEN [value EXCEPT !.items = Append(@, item)]
    ELSE LET i == path[1]
             old == value.items[i]
             new == Append1(Child(value, i), Tail(path), item)
         IN [value EXCEPT !.items[i] = IF Len(old) = 2 THEN <<old[1], new>> ELSE <<new>>]

EntryValues == {None, Scalar("x"), EnumMember("y"), Map(<<>>), List(<<>>)}
ElementValues == {None, Scalar("x"), Scalar(""), Map(<<>>)}

FlattenIdle ==
    /\ fm = Map(<<>>)
    /\ fres = Yield(<<>>)

BindIdle ==
    /\ bsig = <<>>
    /\ bargs = <<>>
    /\ bkwargs = <<>>
    /\ bres = [err |-> FALSE, map |-> <<>>, json |-> "{}"]

WrapIdle ==
    /\ stack = <<>>
    /\ current = <<>>
    /\ agentTask = "none"

\* an agent: its model ([type, model_id], model_id "" when the model has no such
\* attribute), its step budget, its tools by name, and its managed agents, each
\* [name, description, additional_prompting, agent]
Agent(model_id, max_steps, tools, managed) ==
    [model |-> [type |-> "HfApiModel", model_id |-> model_id],
     max_steps |-> max_steps, tools |-> tools, managed |-> managed]

CodeAgent == Agent("model_id", "max_steps", <<"web_search">>, <<>>)

AgentIdle ==
    /\ agent = CodeAgent
    /\ ares = [attributes |-> <<>>, managed |-> List(<<>>)]

LlmIdle ==
    /\ largs = <<>>
    /\ lmodel = Map(<<>>)
    /\ lres = [messages |-> <<>>, parameters |-> <<>>]

EncodeIdle ==
    /\ ev = None
    /\ eres = Yield("null")

FlattenInit ==
    /\ fm = Map(<<>>)
    /\ fres = Flatten(fm)
    /\ BindIdle
    /\ WrapIdle
    /\ EncodeIdle
    /\ LlmIdle
    /\ AgentIdle

\* a caller builds a larger mapping and flattens it
FlattenGrow ==
    /\ NodeCount(fm) < MaxNodes
    /\ \E path \in Containers(fm) :
          LET parent == At(fm, path) IN
          \E item \in IF parent.t = "map"
                      THEN { <<k, child>> : k \in Keys \ KeysOf(parent), child \in EntryValues }
                      ELSE { <<child>> : child \in ElementValues } :
             /\ fm' = Append1(fm, path, item)
             /\ fres' = Flatten(fm')
    /\ UNCHANGED <<bindVars, wrapVars, encodeVars, llmVars, agentVars>>

FlattenNext == FlattenGrow

SpecFlatten == FlattenInit /\ [][FlattenNext]_vars

(***************************************************************************)
(* What a flattened mapping must hold, read off the mapping top-down: one  *)
(* entry per node that is reached through mappings (and sequences holding  *)
(* a mapping) only and is itself neither absent nor descended into.        *)
(***************************************************************************)
RECURSIVE NodePaths(_)
NodePaths(value) ==
    UNION { { <<i>> \o p : p \in {<<>>} \cup NodePaths(Child(value, i)) }
            : i \in 1..Len(value.items) }

Segment(parent, i) == IF parent.t = "map" THEN parent.items[i][1] ELSE ToString(i - 1)

RECURSIVE Dotted(_, _)
Dotted(value, path) ==
    IF Len(path) = 1 THEN Segment(value, path[1])
    ELSE Segment(value, path[1]) \o "." \o Dotted(Child(value, path[1]), Tail(path))

DescendedInto(node) == node.t = "map" \/ (node.t = "list" /\ AnyMapping(node))

Emitted(root, path) ==
    /\ At(root, path).t # "none"
    /\ ~DescendedInto(At(root, path))
    /\ \A k \in 1..(Len(path) - 1) : DescendedInto(At(root, SubSeq(path, 1, k)))

EmitValue(node) == IF node.t = "enum" THEN Scalar(node.v) ELSE node

EmittedPaths(root) == { p \in NodePaths(root) : Emitted(root, p) }

Range(seq) == { seq[i] : i \in 1..Len(seq) }

\* sequences that hold a mapping, anywhere in root
MappingLists(root) ==
    { p \in NodePaths(root) : At(root, p).t = "list" /\ AnyMapping(At(root, p)) }

\* every sequence that holds a mapping holds mappings only
OnlyMappingLists(root) ==
    \A p \in MappingLists(root) :
        \A i \in 1..Len(At(root, p).items) : Child(At(root, p), i).t = "map"

\* position paths in document order
RECURSIVE Before(_, _)
Before(p, q) ==
    IF p = <<>> \/ q = <<>> THEN FALSE
    ELSE IF p[1] # q[1] THEN p[1] < q[1]
    ELSE Before(Tail(p), Tail(q))

(***************************************************************************)
(* C9: for every mapping M (whose sequences hold no mapping), at every     *)
(* nesting depth, _flatten(M) does not raise, yields no entry for a key    *)
(* whose value is None, and yields for a key whose value is a nested       *)
(* mapping exactly the entries of that mapping under `key.`: the result is *)
(* exactly one entry per non-absent leaf, keyed by its dotted path; an     *)
(* empty M yields nothing.                                                 *)
(***************************************************************************)
C9_FlattenNestedMappings ==
    MappingLists(fm) = {} =>
        LET paths == EmittedPaths(fm) IN
        /\ ~fres.err
        /\ Range(fres.out) = { <<Dotted(fm, p), EmitValue(At(fm, p))>> : p \in paths }
        /\ Len(fres.out) = Cardinality(paths)
        /\ \A p \in NodePaths(fm) :
              At(fm, p).t = "none" => \A i \in 1..Len(fres.out) : fres.out[i][1] # Dotted(fm, p)
        /\ \A i \in 1..Len(fres.out) : fres.out[i][2].t # "none"
        /\ (fm.items = <<>> => fres.out = <<>>)

\* a mapping nested two deep with an absent entry beside a present one
C9_Witness ==
    /\ MappingLists(fm) = {}
    /\ \E p \in NodePaths(fm) :
          /\ Len(p) = 3
          /\ At(fm, SubSeq(p, 1, 1)).t = "map"
          /\ At(fm, SubSeq(p, 1, 2)).t = "map"
          /\ At(fm, p).t = "scalar"
          /\ \E q \in NodePaths(fm) : Len(q) = 3 /\ SubSeq(q, 1, 2) = SubSeq(p, 1, 2)
                                      /\ At(fm, q).t = "none"
          /\ <<Dotted(fm, p), At(fm, p)>> \in Range(fres.out)
    /\ Len(fres.out) = 1

(***************************************************************************)
(* C10: for every key K whose value is a sequence of mappings, _flatten    *)
(* yields for the element at position i exactly that element's flattened   *)
(* entries under `K.<i>.`, i counted from 0 in the original order, and the *)
(* entries come out in the order of the sequence.                          *)
(***************************************************************************)
C10_FlattenSequenceOfMappings ==
    (MappingLists(fm) # {} /\ OnlyMappingLists(fm)) =>
        LET paths == EmittedPaths(fm)
            PathOf(key) == CHOOSE p \in paths : Dotted(fm, p) = key
        IN
        /\ ~fres.err
        /\ Range(fres.out) = { <<Dotted(fm, p), EmitValue(At(fm, p))>> : p \in paths }
        /\ Len(fres.out) = Cardinality(paths)
        /\ \A i \in 1..(Len(fres.out) - 1) :
              Before(PathOf(fres.out[i][1]), PathOf(fres.out[i + 1][1]))

\* a sequence of two mappings, each contributing an entry, in sequence order
C10_Witness ==
    /\ OnlyMappingLists(fm)
    /\ Len(fm.items) = 1
    /\ fm.items[1][2].t = "list"
    /\ Len(fm.items[1][2].items) = 2
    /\ \A i \in 1..2 : Child(fm.items[1][2], i).t = "map" /\ Len(Child(fm.items[1][2], i).items) = 1
    /\ Len(fres.out) = 2
    /\ fres.out[1][1] = fm.items[1][1] \o ".0." \o Child(fm.items[1][2], 1).items[1][1]
    /\ fres.out[2][1] = fm.items[1][1] \o ".1." \o Child(fm.items[1][2], 2).items[1][1]

(***************************************************************************)
(* inspect.Signature.bind, as _get_input_value calls it.  A signature is   *)
(* a sequence of parameters [name, kind, default]: kind "pos" is           *)
(* POSITIONAL_OR_KEYWORD, "varpos" is *args, "varkw" is **kwargs; default  *)
(* tells whether the parameter declares a default.  The bound arguments    *)
(* are a sequence of <<name, value>> in the order bind inserts them.       *)
(***************************************************************************)
Param(name, kind, default) == [name |-> name, kind |-> kind, default |-> default]

Names(pairs) == { pairs[i][1] : i \in 1..Len(pairs) }
Get(pairs, name) == (CHOOSE i \in 1..Len(pairs) : pairs[i][1] = name)
ValueOf(pairs, name) == pairs[Get(pairs, name)][2]

Bound(arguments) == [err |-> FALSE, arguments |-> arguments]
BindingIgnored == [err |-> FALSE, arguments |-> <<>>]
BindingError == [err |-> TRUE, arguments |-> <<>>]

\* the positional arguments, bound to the leading parameters
RECURSIVE BindPositional(_, _, _, _, _)
BindPositional(params, args, kwargs, i, acc) ==
    IF i > Len(args) THEN [err |-> FALSE, arguments |-> acc, next |-> i]
    ELSE IF i > Len(params) THEN [err |-> TRUE, arguments |-> acc, next |-> i]
    ELSE IF params[i].kind = "varkw" THEN [err |-> TRUE, arguments |-> acc, next |-> i]
    ELSE IF params[i].kind = "varpos"
         THEN [err |-> FALSE,
               arguments |-> Append(acc, <<params[i].name,
                                           List([j \in 1..(Len(args) - i + 1) |-> <<args[i + j - 1]>>])>>),
               next |-> i + 1]
    ELSE IF params[i].name \in Names(kwargs) THEN [err |-> TRUE, arguments |-> acc, next |-> i]
    ELSE BindPositional(params, args, kwargs, i + 1, Append(acc, <<params[i].name, args[i]>>))

\* the remaining parameters, looked up among the keyword arguments
RECURSIVE BindKeywords(_, _, _, _)
BindKeywords(params, kwargs, i, acc) ==
    IF i > Len(params) THEN Bound(acc)
    ELSE IF params[i].kind \in {"varkw", "varpos"} THEN BindKeywords(params, kwargs, i + 1, acc)
    ELSE IF params[i].name \in Names(kwargs)
         THEN BindKeywords(params, kwargs, i + 1,
                           Append(acc, <<params[i].name, ValueOf(kwargs, params[i].name)>>))
    ELSE IF ~params[i].default THEN BindingError
    ELSE BindKeywords(params, kwargs, i + 1, acc)

Bind(params, args, kwargs) ==
    LET pos == BindPositional(params, args, kwargs, 1, <<>>)
        kw == BindKeywords(params, kwargs, pos.next, pos.arguments)
        taken == { params[i].name : i \in { j \in pos.next..Len(params) : params[j].kind = "pos" } }
        rest == SelectSeq(kwargs, LAMBDA e : e[1] \notin taken)
        varkw == { i \in pos.next..Len(params) : params[i].kind = "varkw" }
    IN  IF pos.err \/ kw.err THEN BindingError
        ELSE IF rest = <<>> THEN kw
        ELSE IF varkw = {} THEN BindingError
        ELSE Bound(Append(kw.arguments, <<params[CHOOSE i \in varkw : TRUE].name, Map(rest)>>))

(***************************************************************************)
(* safe_json_dumps of a value: the JSON text.                              *)
(***************************************************************************)
RECURSIVE Dumps(_)
RECURSIVE DumpsItems(_, _, _)
DumpsItems(isMap, items, i) ==
    IF i > Len(items) THEN ""
    ELSE (IF i > 1 THEN ", " ELSE "")
         \o (IF isMap THEN "\"" \o items[i][1] \o "\": " \o Dumps(items[i][2])
             ELSE Dumps(items[i][1]))
         \o DumpsItems(isMap, items, i + 1)
Dumps(value) ==
    CASE value.t = "none" -> "null"
      [] value.t = "map" -> "{" \o DumpsItems(TRUE, value.items, 1) \o "}"
      [] value.t = "list" -> "[" \o DumpsItems(FALSE, value.items, 1) \o "]"
      [] OTHER -> "\"" \o value.v \o "\""

\* {**d, **extra}: a key of d keeps its place and takes extra's value, new keys follow
RECURSIVE DictMerge(_, _)
DictMerge(d, extra) ==
    IF extra = <<>> THEN d
    ELSE LET e == Head(extra) IN
         DictMerge(IF e[1] \in Names(d)
                   THEN [d EXCEPT ![Get(d, e[1])] = e]
                   ELSE Append(d, e),
                   Tail(extra))

(***************************************************************************)
(* _get_input_value                                                        *)
(***************************************************************************)
SignatureContainsSelfNever(params) == FALSE
SignatureContainsSelf(params) == Len(params) > 0 /\ params[1].name \in {"self"}

ExcludedNamesNone == {}
ExcludedNames == {"self", "kwargs"}

InputValue(map) == [err |-> FALSE, map |-> map, json |-> Dumps(Map(map))]
InputError == [err |-> TRUE, map |-> <<>>, json |-> ""]

BoundArguments(params, args, kwargs) ==
    Bind(params, (IF SignatureContainsSelf(params) THEN <<None>> ELSE <<>>) \o args, kwargs)

GetInputValue(params, args, kwargs) ==
    LET bound_arguments == BoundArguments(params, args, kwargs)
        top == SelectSeq(bound_arguments.arguments, LAMBDA e : e[1] \notin ExcludedNames)
        kw == IF "kwargs" \in Names(bound_arguments.arguments)
              THEN ValueOf(bound_arguments.arguments, "kwargs")
              ELSE Map(<<>>)
    IN  IF bound_arguments.err THEN InputError
        ELSE IF kw.t # "map" THEN InputError
        ELSE InputValue(DictMerge(top, kw.items))

(***************************************************************************)
(* The calls _get_input_value is applied to: a signature of the wrapped    *)
(* methods' shapes and a call built one argument at a time.                *)
(***************************************************************************)
Signatures ==
    { << Param("a", "pos", FALSE), Param("b", "pos", FALSE) >>,
      << Param("self", "pos", FALSE), Param("a", "pos", FALSE), Param("b", "pos", TRUE) >>,
      << Param("b", "pos", FALSE), Param("a", "pos", TRUE), Param("kwargs", "varkw", FALSE) >>,
      << Param("self", "pos", FALSE), Param("args", "varpos", FALSE),
         Param("kwargs", "varkw", FALSE) >>,
      << Param("a", "pos", FALSE), Param("b", "pos", TRUE), Param("kwargs", "pos", TRUE) >> }

KeywordNames == {"a", "b", "x", "kwargs"}
ArgumentValues == {Scalar("1"), Scalar("2"), Map(<< <<"b", Scalar("2")>> >>)}

BindInit ==
    /\ bsig \in Signatures
    /\ bargs = <<>>
    /\ bkwargs = <<>>
    /\ bres = GetInputValue(bsig, bargs, bkwargs)
    /\ FlattenIdle
    /\ WrapIdle
    /\ EncodeIdle
    /\ LlmIdle
    /\ AgentIdle

\* the caller passes one more positional argument
BindPassPositional ==
    /\ Len(bargs) < MaxArgs
    /\ \E value \in ArgumentValues :
          /\ bargs' = Append(bargs, value)
          /\ bres' = GetInputValue(bsig, bargs', bkwargs)
    /\ UNCHANGED <<bsig, bkwargs, flattenVars, wrapVars, encodeVars, llmVars, agentVars>>

\* the caller passes one more keyword argument
BindPassKeyword ==
    /\ Len(bkwargs) < MaxKwargs
    /\ \E name \in KeywordNames \ Names(bkwargs), value \in ArgumentValues :
          /\ bkwargs' = Append(bkwargs, <<name, value>>)
          /\ bres' = GetInputValue(bsig, bargs, bkwargs')
    /\ UNCHANGED <<bsig, bargs, flattenVars, wrapVars, encodeVars, llmVars, agentVars>>

BindNext == BindPassPositional \/ BindPassKeyword

SpecBind == BindInit /\ [][BindNext]_vars

(***************************************************************************)
(* The same assignment of values to parameters, passed another way.        *)
(***************************************************************************)
LeadingSelf(params) == IF params # <<>> /\ params[1].name = "self" THEN 1 ELSE 0

DeclaredNames(params) == { params[i].name : i \in { j \in 1..Len(params) : params[j].kind = "pos" } }

\* the positional arguments after the first j can be passed by keyword
Movable(params, args, j) ==
    \A i \in (j + 1)..Len(args) :
        /\ i + LeadingSelf(params) <= Len(params)
        /\ params[i + LeadingSelf(params)].kind = "pos"

MovedToKeywords(params, args, j) ==
    [i \in 1..(Len(args) - j) |-> <<params[j + i + LeadingSelf(params)].name, args[j + i]>>]

\* keyword arguments i and i+1 exchanged
Swapped(kwargs, i) ==
    [k \in 1..Len(kwargs) |-> IF k = i THEN kwargs[i + 1] ELSE IF k = i + 1 THEN kwargs[i] ELSE kwargs[k]]

(***************************************************************************)
(* C7: argument binding is argument-order-invariant.  For every call that  *)
(* binds, passing any trailing positional arguments by keyword instead     *)
(* (before or after the other keywords), or exchanging a keyword argument  *)
(* of a declared parameter with its neighbour, gives the identical         *)
(* canonical input mapping: same keys, same values, same key order, hence  *)
(* the same JSON text.                                                     *)
(***************************************************************************)
C7_BindOrderInvariant ==
    ~bres.err =>
        /\ \A j \in 0..Len(bargs) :
              Movable(bsig, bargs, j) =>
                 /\ GetInputValue(bsig, SubSeq(bargs, 1, j),
                                  bkwargs \o MovedToKeywords(bsig, bargs, j)) = bres
                 /\ GetInputValue(bsig, SubSeq(bargs, 1, j),
                                  MovedToKeywords(bsig, bargs, j) \o bkwargs) = bres
        /\ \A i \in 1..(Len(bkwargs) - 1) :
              (bkwargs[i][1] \in DeclaredNames(bsig) \/ bkwargs[i + 1][1] \in DeclaredNames(bsig))
                 => GetInputValue(bsig, bargs, Swapped(bkwargs, i)) = bres

\* f(a, b) called as f(1, 2): the same mapping as f(a=1, b=2) and f(b=2, a=1)
C7_Witness ==
    /\ bsig = << Param("a", "pos", FALSE), Param("b", "pos", FALSE) >>
    /\ bargs = << Scalar("1"), Scalar("2") >>
    /\ bkwargs = <<>>
    /\ ~bres.err
    /\ bres.json = "{\"a\": \"1\", \"b\": \"2\"}"
    /\ GetInputValue(bsig, <<>>, << <<"b", Scalar("2")>>, <<"a", Scalar("1")>> >>) = bres

(***************************************************************************)
(* C8 as claimed: a keyword argument literally named "kwargs" whose value  *)
(* is a mapping K has K's entries merged into the top level, exactly as if *)
(* K's entries had been passed as direct keyword arguments, and neither    *)
(* "self" nor "kwargs" appears at the top level.                           *)
(***************************************************************************)
PassesKwargsMapping ==
    /\ ~bres.err
    /\ "kwargs" \in Names(bkwargs)
    /\ ValueOf(bkwargs, "kwargs").t = "map"

WithoutKwargs == SelectSeq(bkwargs, LAMBDA e : e[1] # "kwargs")

C8_Original ==
    PassesKwargsMapping =>
        LET K == ValueOf(bkwargs, "kwargs") IN
        /\ Range(K.items) \subseteq Range(bres.map)
        /\ "kwargs" \notin Names(bres.map)
        /\ "self" \notin Names(bres.map)
        /\ GetInputValue(bsig, bargs, WithoutKwargs \o K.items) = bres

(***************************************************************************)
(* C8 as amended: when the wrapped function declares an ordinary parameter *)
(* named "kwargs", a keyword kwargs=K (K a mapping) has K's entries merged *)
(* into the top level after the other bound arguments, K's value winning   *)
(* on a shared key, and "kwargs" itself is not a top-level key; when the   *)
(* function captures keywords with a variadic **kwargs, kwargs=K is itself *)
(* a captured entry: the top level holds the entry "kwargs": K and K's     *)
(* entries are not merged.  The value bound to a leading receiver          *)
(* parameter "self" is never emitted.                                      *)
(***************************************************************************)
HasVarKw(params) == \E i \in 1..Len(params) : params[i].kind = "varkw"

C8_KwargsKeyword ==
    /\ PassesKwargsMapping =>
          LET K == ValueOf(bkwargs, "kwargs")
              others == SelectSeq(bres.map, LAMBDA e : e[1] \notin Names(K.items))
          IN  IF HasVarKw(bsig)
              THEN /\ <<"kwargs", K>> \in Range(bres.map)
                   /\ \A e \in Range(K.items) :
                         e[1] \in Names(bres.map) =>
                            e[1] \in Names(bkwargs) \/ e[1] \in DeclaredNames(bsig)
              ELSE /\ Range(K.items) \subseteq Range(bres.map)
                   /\ "kwargs" \notin Names(bres.map)
                   /\ \A e \in Range(others) :
                         e[1] \in DeclaredNames(bsig) \ {"self", "kwargs"}
    /\ (~bres.err /\ LeadingSelf(bsig) = 1) => "self" \notin Names(bres.map)

\* both cases: f(b, a=.., **kwargs) and f(a, b=.., kwargs=..) called with kwargs={"b": 2}
C8_Witness ==
    /\ PassesKwargsMapping
    /\ ValueOf(bkwargs, "kwargs") = Map(<< <<"b", Scalar("2")>> >>)
    /\ \/ /\ HasVarKw(bsig)
          /\ LeadingSelf(bsig) = 1
          /\ bres.json = "{\"kwargs\": {\"b\": \"2\"}}"
       \/ /\ ~HasVarKw(bsig)
          /\ bres.json = "{\"a\": \"1\", \"b\": \"2\"}"

(***************************************************************************)
(* SafeJSONEncoder: json.dumps(value, cls=SafeJSONEncoder).  json encodes  *)
(* None, scalars, mappings and lists itself and hands every other value to *)
(* default(o), whose return value it encodes in turn.  The result is       *)
(* [err, out]: the text, or err when an exception leaves the encoder.      *)
(***************************************************************************)
Repr(o) == IF o.t = "enum" THEN "<E." \o o.v \o ">" ELSE "<object>"

\* hasattr(o, "dict") and callable(o.dict)
HasDictMethod(o) == o.t = "object" /\ o.v \in {"exports", "raises"}

\* default(o): super().default(o) raises TypeError for every o it is given;
\* o.dict() is called in the handler, outside any try
Default(o) ==
    IF HasDictMethod(o)
    THEN IF o.v = "raises" THEN Raise(None) ELSE Yield(Map(o.items))
    ELSE Yield(Scalar(Repr(o)))

RECURSIVE Encode(_)
RECURSIVE EncodeItems(_, _, _)
EncodeItems(isMap, items, i) ==
    IF i > Len(items) THEN Yield("")
    ELSE LET head == Encode(items[i][Len(items[i])])
             rest == EncodeItems(isMap, items, i + 1)
         IN  IF head.err THEN Raise("")
             ELSE IF rest.err THEN Raise("")
             ELSE Yield((IF i > 1 THEN ", " ELSE "")
                        \o (IF isMap THEN "\"" \o items[i][1] \o "\": " ELSE "")
                        \o head.out \o rest.out)
Encode(value) ==
    CASE value.t = "none" -> Yield("null")
      [] value.t = "scalar" -> Yield("\"" \o value.v \o "\"")
      [] value.t = "map" ->
            LET inner == EncodeItems(TRUE, value.items, 1)
            IN  IF inner.err THEN inner ELSE Yield("{" \o inner.out \o "}")
      [] value.t = "list" ->
            LET inner == EncodeItems(FALSE, value.items, 1)
            IN  IF inner.err THEN inner ELSE Yield("[" \o inner.out \o "]")
      [] OTHER ->
            LET replaced == Default(value)
            IN  IF replaced.err THEN Raise("") ELSE Encode(replaced.out)

\* the values handed to the encoder: nestings of at most MaxEncodeNodes nodes
EncodedValues ==
    { None, Scalar("x"), EnumMember("y"), Map(<<>>), List(<<>>),
      Object("plain", <<>>),
      Object("exports", << <<"a", Scalar("x")>> >>),
      Object("raises", <<>>) }

EncodeInit ==
    /\ ev \in EncodedValues
    /\ eres = Encode(ev)
    /\ FlattenIdle
    /\ BindIdle
    /\ WrapIdle
    /\ LlmIdle
    /\ AgentIdle

\* a caller builds a larger value and encodes it
EncodeGrow ==
    /\ NodeCount(ev) < MaxEncodeNodes
    /\ \E path \in Containers(ev) :
          LET parent == At(ev, path) IN
          \E item \in IF parent.t = "map"
                      THEN { <<k, child>> : k \in Keys \ KeysOf(parent), child \in EncodedValues }
                      ELSE { <<child>> : child \in EncodedValues } :
             /\ ev' = Append1(ev, path, item)
             /\ eres' = Encode(ev')
    /\ UNCHANGED <<flattenVars, bindVars, wrapVars, llmVars, agentVars>>

EncodeNext == EncodeGrow

SpecEncode == EncodeInit /\ [][EncodeNext]_vars

(***************************************************************************)
(* C11 as claimed: the safe encoder is total: for any value, including one *)
(* json cannot serialize and whose `dict` export method raises, encoding   *)
(* returns a string and never raises.                                      *)
(***************************************************************************)
C11_Original == ~eres.err

(***************************************************************************)
(* Spans and the tracer.  A span is [started, name, attributes, status,    *)
(* description, events, ends]: attributes is a sequence of <<key, value>>  *)
(* with dict semantics, events the recorded exceptions, ends the number of *)
(* times the span was ended.                                               *)
(***************************************************************************)
OPENINFERENCE_SPAN_KIND == "openinference.span.kind"
INPUT_VALUE == "input.value"
INPUT_MIME_TYPE == "input.mime_type"
OUTPUT_VALUE == "output.value"
OUTPUT_MIME_TYPE == "output.mime_type"
LLM_TOKEN_COUNT_PROMPT == "llm.token_count.prompt"
LLM_TOKEN_COUNT_COMPLETION == "llm.token_count.completion"
LLM_TOKEN_COUNT_TOTAL == "llm.token_count.total"
LLM_MODEL_NAME == "llm.model_name"
LLM_INVOCATION_PARAMETERS == "llm.invocation_parameters"
TOOL_CALL_FUNCTION_NAME == "tool_call.function.name"
TOOL_CALL_FUNCTION_ARGUMENTS_JSON == "tool_call.function.arguments"

Number(n) == Scalar(ToString(n))

NoSpan == [started |-> FALSE, name |-> "", attributes |-> <<>>, status |-> "UNSET",
           description |-> "", events |-> <<>>, ends |-> 0]

\* tracer.start_as_current_span(name, attributes=...)
StartSpan(name, attributes) ==
    [started |-> TRUE, name |-> name, attributes |-> DictMerge(<<>>, attributes),
     status |-> "UNSET", description |-> "", events |-> <<>>, ends |-> 0]

\* span.set_attribute: a None value is dropped
SetAttribute(span, key, value) ==
    IF value.t = "none" THEN span
    ELSE [span EXCEPT !.attributes = DictMerge(@, << <<key, value>> >>)]

RECURSIVE SetAttributes(_, _)
SetAttributes(span, pairs) ==
    IF pairs = <<>> THEN span
    ELSE SetAttributes(SetAttribute(span, Head(pairs)[1], Head(pairs)[2]), Tail(pairs))

\* span.set_status: a status of OK is final
SetStatusWithoutDescription(span, code, description) ==
    IF span.status = "OK" THEN span
    ELSE [span EXCEPT !.status = code, !.description = ""]
SetStatus(span, code, description) ==
    IF span.status = "OK" THEN span
    ELSE [span EXCEPT !.status = code,
                      !.description = IF code = "ERROR" THEN description ELSE ""]

RecordException(span, exception) == [span EXCEPT !.events = Append(@, exception)]

\* leaving the `with` block ends the span, however the block is left
EndSpanOnReturnOnly(span, raised) == IF raised THEN span ELSE [span EXCEPT !.ends = @ + 1]
EndSpan(span, raised) == [span EXCEPT !.ends = @ + 1]

Attribute(span, key) == ValueOf(span.attributes, key)
HasAttribute(span, key) == key \in Names(span.attributes)

(***************************************************************************)
(* Exceptions and outcomes.  An exception is [id, text]: id is the         *)
(* identity of the exception object, text is str(exception).               *)
(***************************************************************************)
Exception(id, text) == [id |-> id, text |-> text]
NoException == Exception("", "")
WrappedExceptions == { Exception("e1", "timeout"), Exception("e2", "") }
BindingTypeError == Exception("TypeError", "missing a required argument")
AttributeError == Exception("AttributeError", "object has no attribute")
IndexError == Exception("IndexError", "tuple index out of range")

Nothing == [kind |-> "none", value |-> "", exception |-> NoException]
Returned(value) == [kind |-> "return", value |-> value, exception |-> NoException]
Raised(exception) == [kind |-> "raise", value |-> "", exception |-> exception]

\* except Exception as exception: set_status(ERROR, str(exception)); record_exception; raise
OnExceptionSwallowed(span, exception) ==
    [span |-> RecordException(SetStatus(span, "ERROR", exception.text), exception),
     out |-> Returned("")]
OnException(span, exception) ==
    [span |-> RecordException(SetStatus(span, "ERROR", exception.text), exception),
     out |-> Raised(exception)]

(***************************************************************************)
(* Interceptions.  A frame is one call of a wrapper:                       *)
(*   w          "Run", "Step", "Model" or "Tool"                           *)
(*   suppressed the suppression flag was active at entry                   *)
(*   call       [args, kwargs] given to the wrapper                        *)
(*   passed     the sequence of calls the wrapper made of wrapped          *)
(*   instance   whether the wrapper's instance is a (truthy) object        *)
(*   context    get_attributes_from_context() of the ambient context       *)
(*   pc         "running" while wrapped runs, "done" once the wrapper has  *)
(*              returned or raised                                         *)
(*   span       the wrapper's span (NoSpan if it started none)             *)
(*   wrapped    what the wrapped call did, out what the wrapper did        *)
(*   log        the step log after a step: [error, observations]           *)
(*   before     the token counters of the agent or model at entry          *)
(*   after      the token counters once the wrapped call has completed     *)
(***************************************************************************)
Call(args, kwargs) == [args |-> args, kwargs |-> kwargs]

Contexts ==
    { <<>>,
      << <<OUTPUT_VALUE, Scalar("ctx")>>, <<"session.id", Scalar("s")>> >> }

Frame(w, suppressed, call, instance, context) ==
    [w |-> w, suppressed |-> suppressed, call |-> call, passed |-> <<>>,
     instance |-> instance, context |-> context, pc |-> "running",
     span |-> NoSpan, wrapped |-> Nothing, out |-> Nothing,
     log |-> [error |-> None, observations |-> None],
     before |-> [input |-> 0, output |-> 0], after |-> [input |-> 0, output |-> 0]]

\* wrapped(*args, **kwargs)
InvokeWrapped(frame) == [frame EXCEPT !.passed = Append(@, frame.call)]

Top == stack[Len(stack)]

\* which wrapped calls lead to which interceptions: a run steps, calls models and
\* tools; a step calls models and tools
CanNest(parent, child) ==
    \/ parent = "Run" /\ child \in {"Step", "Model", "Tool"}
    \/ parent = "Step" /\ child \in {"Model", "Tool"}

\* w can be intercepted now: by the program, or by the wrapped call that is running
CanEnter(w) == IF stack = <<>> THEN TRUE ELSE Top.pc = "running" /\ CanNest(Top.w, w)

\* the wrapper leaves its `with` block: the span ends and stops being current
Exit(frame, span, out) ==
    [frame EXCEPT !.pc = "done", !.span = EndSpan(span, out.kind = "raise"), !.out = out]

PushRunning(frame) ==
    /\ stack' = Append(stack, frame)
    /\ current' = IF frame.span.started THEN Append(current, Len(stack) + 1) ELSE current

PushDone(frame) ==
    /\ stack' = Append(stack, [frame EXCEPT !.pc = "done"])
    /\ current' = current

\* the tracer detaches the span of the frame at the top of the stack
Detach(frame) ==
    IF frame.span.started /\ frame.span.ends > 0
    THEN SelectSeq(current, LAMBDA i : i # Len(stack))
    ELSE current

Finish(frame) ==
    /\ stack' = [stack EXCEPT ![Len(stack)] = frame]
    /\ current' = Detach(frame)

\* context_api.get_value(context_api._SUPPRESS_INSTRUMENTATION_KEY)
SuppressionIgnored(flag) == FALSE
SuppressionActive(flag) == flag

\* suppressed: `return wrapped(*args, **kwargs)`
SuppressedFrame(w, call, instance, context) ==
    InvokeWrapped(Frame(w, TRUE, call, instance, context))

Results == {"none", "r1"}      \* what a wrapped call returns; "none" is None
Str(result) == IF result = "none" THEN "None" ELSE result
TokenCounts == { [input |-> 0, output |-> 0], [input |-> 10, output |-> 5] }

\* agent.monitor.total_input_token_count, model.last_input_token_count, ...:
\* the counters are read where the statement stands, after the wrapped call
ReadCountersAtEntry(before, after) == before
ReadCounters(before, after) == after

TokenAttributes(counts) ==
    << <<LLM_TOKEN_COUNT_PROMPT, Number(counts.input)>>,
       <<LLM_TOKEN_COUNT_COMPLETION, Number(counts.output)>>,
       <<LLM_TOKEN_COUNT_TOTAL, Number(counts.input + counts.output)>> >>

(***************************************************************************)
(* _RunWrapper.__call__                                                    *)
(***************************************************************************)
RunSignature == << Param("task", "pos", FALSE), Param("additional_args", "pos", TRUE) >>

RunCalls ==
    { Call(<< Scalar("t1") >>, <<>>),
      Call(<<>>, << <<"task", Scalar("t2")>> >>),
      Call(<<>>, <<>>) }

\* agent.task once the wrapped run has stored the task text it was called with
TaskOf(call, task) ==
    LET arguments == Bind(RunSignature, call.args, call.kwargs).arguments
    IN  IF "task" \in Names(arguments) THEN ValueOf(arguments, "task").v ELSE task

AdditionalArgs(call) ==
    IF "additional_args" \in Names(call.kwargs) /\ Truthy(ValueOf(call.kwargs, "additional_args"))
    THEN Scalar(Dumps(ValueOf(call.kwargs, "additional_args")))
    ELSE Scalar("")

\* lines 134-136: the agent's model type, then " - " and the model id if it has one
ModelDescriptor(model) ==
    model.type \o (IF model.model_id # "" THEN " - " \o model.model_id ELSE "")

\* lines 148-151: type + " - " + id if hasattr(model, "model_id") else ""
ManagedModelDescriptor(model) ==
    IF model.model_id # "" THEN model.type \o " - " \o model.model_id ELSE ""

\* list(agent.tools.keys())
ToolsNames(a) == List([i \in 1..Len(a.tools) |-> << Scalar(a.tools[i]) >>])

\* lines 144-154: the entry of one managed agent of `parent`
ManagedAgentEntry(parent, managed_agent) ==
    Map(<< <<"name", Scalar(managed_agent.name)>>,
           <<"description", Scalar(managed_agent.description)>>,
           <<"additional_prompting", managed_agent.additional_prompting>>,
           <<"model", Scalar(ManagedModelDescriptor(managed_agent.agent.model))>>,
           <<"max_steps", Scalar(managed_agent.agent.max_steps)>>,
           <<"tools_names", ToolsNames(parent)>> >>)

\* lines 143-156: one entry per managed agent
ManagedAgents(a) ==
    List([i \in 1..Len(a.managed) |-> << ManagedAgentEntry(a, a.managed[i]) >>])

\* lines 134-158
AgentAttributes(a) ==
    << <<"model", Scalar(ModelDescriptor(a.model))>>,
       <<"max_steps", Scalar(a.max_steps)>>,
       <<"tools_names", ToolsNames(a)>>,
       <<"managed_agents", Scalar(Dumps(ManagedAgents(a)))>> >>

\* what the wrapper computes from the agent: the attributes, and the summary of
\* the managed agents before it is dumped
AgentSummary(a) == [attributes |-> AgentAttributes(a), managed |-> ManagedAgents(a)]

(***************************************************************************)
(* The agents a run is intercepted on: a parent with some tools and at     *)
(* most MaxManaged managed agents, each with its own model (with or        *)
(* without a model id), step budget and tools.                             *)
(***************************************************************************)
ToolNames == { "web_search", "calculator" }
ModelIds == { "", "sub_model_id" }
Budgets == { "5", "7" }

ManagedAgent(sub) ==
    [name |-> "helper", description |-> "helps", additional_prompting |-> None, agent |-> sub]

AgentInit ==
    /\ agent = Agent("model_id", "max_steps", <<>>, <<>>)
    /\ ares = AgentSummary(agent)
    /\ FlattenIdle
    /\ BindIdle
    /\ WrapIdle
    /\ EncodeIdle
    /\ LlmIdle

\* the parent agent is given one more tool
AgentAddTool ==
    /\ \E name \in ToolNames \ Range(agent.tools) :
          /\ agent' = [agent EXCEPT !.tools = Append(@, name)]
          /\ ares' = AgentSummary(agent')
    /\ UNCHANGED <<flattenVars, bindVars, wrapVars, encodeVars, llmVars>>

\* the parent agent is given one more managed agent
AgentManage ==
    /\ Len(agent.managed) < MaxManaged
    /\ \E model_id \in ModelIds, max_steps \in Budgets :
          /\ agent' = [agent EXCEPT !.managed =
                          Append(@, ManagedAgent(Agent(model_id, max_steps, <<>>, <<>>)))]
          /\ ares' = AgentSummary(agent')
    /\ UNCHANGED <<flattenVars, bindVars, wrapVars, encodeVars, llmVars>>

\* the last managed agent is given one more tool
AgentAddManagedTool ==
    /\ agent.managed # <<>>
    /\ \E name \in ToolNames \ Range(agent.managed[Len(agent.managed)].agent.tools) :
          /\ agent' = [agent EXCEPT !.managed[Len(agent.managed)].agent.tools = Append(@, name)]
          /\ ares' = AgentSummary(agent')
    /\ UNCHANGED <<flattenVars, bindVars, wrapVars, encodeVars, llmVars>>

AgentNext == AgentAddTool \/ AgentManage \/ AgentAddManagedTool

SpecAgent == AgentInit /\ [][AgentNext]_vars

\* lines 102-158: the span and the attributes read from the agent before the call
RunSpan(input_value, task, call) ==
    SetAttributes(
        StartSpan("CodeAgent.run",
                  Flatten(Map(<< <<OPENINFERENCE_SPAN_KIND, Scalar("AGENT")>>,
                                 <<INPUT_VALUE, Scalar(input_value)>> >>)).out),
        << <<INPUT_VALUE, IF task = "none" THEN None ELSE Scalar(task)>>,
           <<"agent_name", Scalar("CodeAgent")>>,
           <<"task", IF task = "none" THEN None ELSE Scalar(task)>>,
           <<"additional_args", AdditionalArgs(call)>> >>
        \o AgentAttributes(CodeAgent))

RunEnter ==
    /\ CanEnter("Run")
    /\ \E call \in RunCalls, suppressed \in BOOLEAN, context \in Contexts :
          LET input == GetInputValue(RunSignature, call.args, call.kwargs)
              frame == Frame("Run", suppressed, call, TRUE, context)
          IN  IF SuppressionActive(suppressed)
              THEN /\ PushRunning(SuppressedFrame("Run", call, TRUE, context))
                   /\ agentTask' = TaskOf(call, agentTask)
              ELSE IF input.err
              THEN /\ PushDone([frame EXCEPT !.out = Raised(BindingTypeError)])
                   /\ UNCHANGED agentTask
              ELSE /\ \E counts \in TokenCounts :
                        PushRunning(InvokeWrapped(
                          [frame EXCEPT !.span = RunSpan(input.json, agentTask, call),
                                        !.before = counts]))
                   /\ agentTask' = TaskOf(call, agentTask)
    /\ UNCHANGED <<flattenVars, bindVars, encodeVars, llmVars, agentVars>>

Unsuppressed(w) == stack # <<>> /\ Top.w = w /\ Top.pc = "running" /\ ~Top.suppressed

\* lines 160-177, the wrapped run returned
RunReturn ==
    /\ Unsuppressed("Run")
    /\ \E result \in Results, counts \in TokenCounts :
          LET read == ReadCounters(Top.before, counts)
              span == SetAttributes(
                          SetAttribute(
                              SetStatus(SetAttributes(Top.span, TokenAttributes(read)), "OK", ""),
                              OUTPUT_VALUE, Scalar(Str(result))),
                          Top.context)
          IN  Finish(Exit([Top EXCEPT !.wrapped = Returned(result), !.after = counts],
                          span, Returned(result)))
    /\ UNCHANGED <<agentTask, flattenVars, bindVars, encodeVars, llmVars, agentVars>>

\* lines 170-173 (and 214-217, 333-336, 389-392): the wrapped call raised
WrappedRaises ==
    /\ stack # <<>> /\ Top.pc = "running" /\ ~Top.suppressed
    /\ \E exception \in WrappedExceptions :
          LET handled == OnException(Top.span, exception)
          IN  Finish(Exit([Top EXCEPT !.wrapped = Raised(exception)], handled.span, handled.out))
    /\ UNCHANGED <<agentTask, flattenVars, bindVars, encodeVars, llmVars, agentVars>>

\* lines 100-101 (and 191-192, 311-312, 362-363): the wrapped call of a
\* suppressed interception returned or raised
SuppressedReturns ==
    /\ stack # <<>> /\ Top.pc = "running" /\ Top.suppressed
    /\ \E result \in Results :
          Finish([Top EXCEPT !.pc = "done", !.wrapped = Returned(result), !.out = Returned(result)])
    /\ UNCHANGED <<agentTask, flattenVars, bindVars, encodeVars, llmVars, agentVars>>

SuppressedRaises ==
    /\ stack # <<>> /\ Top.pc = "running" /\ Top.suppressed
    /\ \E exception \in WrappedExceptions :
          Finish([Top EXCEPT !.pc = "done", !.wrapped = Raised(exception), !.out = Raised(exception)])
    /\ UNCHANGED <<agentTask, flattenVars, bindVars, encodeVars, llmVars, agentVars>>

\* the caller of the wrapper takes its result or its exception
Deliver ==
    /\ stack # <<>> /\ Top.pc = "done"
    /\ stack' = SubSeq(stack, 1, Len(stack) - 1)
    /\ UNCHANGED <<current, agentTask, flattenVars, bindVars, encodeVars, llmVars, agentVars>>

(***************************************************************************)
(* _StepWrapper.__call__                                                   *)
(***************************************************************************)
StepCalls ==
    { Call(<< Scalar("step_log") >>, <<>>),
      Call(<<>>, << <<"memory_step", Scalar("step_log")>> >>) }

StepEnter ==
    /\ CanEnter("Step")
    /\ \E call \in StepCalls, suppressed \in BOOLEAN, context \in Contexts :
          IF SuppressionActive(suppressed)
          THEN PushRunning(SuppressedFrame("Step", call, TRUE, context))
          ELSE PushRunning(InvokeWrapped(
                   [Frame("Step", suppressed, call, TRUE, context) EXCEPT
                       !.span = StartSpan("Step 1", << <<OPENINFERENCE_SPAN_KIND, Scalar("CHAIN")>> >>)]))
    /\ UNCHANGED <<agentTask, flattenVars, bindVars, encodeVars, llmVars, agentVars>>

\* lines 204-225, the wrapped step returned; error and observations are the
\* step log's fields after the step
StepReturn ==
    /\ Unsuppressed("Step")
    /\ \E result \in Results, error \in {None, Scalar("step error")},
          observations \in {Scalar("obs")} :
          LET answered == IF result # "none"
                          THEN SetAttribute(Top.span, "Final answer", Scalar(result))
                          ELSE Top.span
              handled == OnException(answered, IndexError)
              span == SetAttributes(
                          SetAttribute(
                              SetStatus(
                                  SetAttribute(
                                      IF error.t # "none"
                                      THEN SetAttribute(answered, "Error", error)
                                      ELSE answered,
                                      "Observations", observations),
                                  "OK", ""),
                              OUTPUT_VALUE, observations),
                          Top.context)
              frame == [Top EXCEPT !.wrapped = Returned(result),
                                   !.log = [error |-> error, observations |-> observations]]
          IN  IF Top.call.args = <<>>
              THEN Finish(Exit(frame, handled.span, handled.out))
              ELSE Finish(Exit(frame, span, Returned(result)))
    /\ UNCHANGED <<agentTask, flattenVars, bindVars, encodeVars, llmVars, agentVars>>

(***************************************************************************)
(* _ModelWrapper.__call__ and its helpers                                  *)
(***************************************************************************)
ModelSignature ==
    << Param("messages", "pos", FALSE), Param("stop_sequences", "pos", TRUE),
       Param("kwargs", "varkw", FALSE) >>

Messages == List(<< << Map(<< <<"role", Scalar("user")>>, <<"content", Scalar("hi")>> >>) >> >>)

ModelCalls ==
    { Call(<< Messages >>, <<>>),
      Call(<<>>, << <<"messages", Messages>> >>),
      Call(<<>>, <<>>) }

\* bound_args.apply_defaults(): every parameter, in signature order; an
\* unsupplied parameter takes its default (None here), () for *args, {} for **kwargs
ApplyDefaults(params, arguments) ==
    LET present == { i \in 1..Len(params) :
                        params[i].name \in Names(arguments) \/ params[i].kind # "pos"
                        \/ params[i].default }
        order == [k \in 1..Cardinality(present) |->
                     CHOOSE i \in present : Cardinality({ j \in present : j < i }) = k - 1]
    IN  [k \in 1..Cardinality(present) |->
            LET p == params[order[k]] IN
            <<p.name,
              IF p.name \in Names(arguments) THEN ValueOf(arguments, p.name)
              ELSE IF p.kind = "varpos" THEN List(<<>>)
              ELSE IF p.kind = "varkw" THEN Map(<<>>)
              ELSE None>>]

BindArguments(params, args, kwargs) ==
    LET bound_args == Bind(params, args, kwargs)
    IN  IF bound_args.err THEN bound_args
        ELSE Bound(ApplyDefaults(params, bound_args.arguments))

InputValueAndMimeType(arguments) ==
    << <<INPUT_MIME_TYPE, Scalar("application/json")>>,
       <<INPUT_VALUE, Scalar(Dumps(Map(arguments)))>> >>

\* model_kwargs | kwargs: the right operand wins on a shared key
UnionLeftWins(model_kwargs, kwargs) == DictMerge(kwargs, model_kwargs)
Union(model_kwargs, kwargs) == DictMerge(model_kwargs, kwargs)

\* stored is getattr(model, "kwargs", {})
LlmInvocationParameters(stored, arguments) ==
    LET model_kwargs == IF stored.t = "map" THEN stored.items ELSE <<>>
        kwargs == IF "kwargs" \in Names(arguments) /\ ValueOf(arguments, "kwargs").t = "map"
                  THEN ValueOf(arguments, "kwargs").items
                  ELSE <<>>
    IN  << <<LLM_INVOCATION_PARAMETERS, Scalar(Dumps(Map(Union(model_kwargs, kwargs))))>> >>

MessageKey(i, field) == "llm.input_messages." \o ToString(i) \o ".message." \o field

RECURSIVE MessageAttributes(_, _)
MessageAttributes(messages, i) ==
    IF i > Len(messages) THEN <<>>
    ELSE LET message == messages[i][1]
             field(name) ==
                 IF message.t = "map" /\ name \in Names(message.items)
                    /\ ValueOf(message.items, name).t # "none"
                 THEN << <<MessageKey(i - 1, name), ValueOf(message.items, name)>> >>
                 ELSE <<>>
         IN  field("role") \o field("content") \o MessageAttributes(messages, i + 1)

LlmInputMessagesListFirst(arguments) ==
    IF "messages" \in Names(arguments) /\ ValueOf(arguments, "messages").t = "list"
    THEN MessageAttributes(ValueOf(arguments, "messages").items, 1)
    ELSE IF "prompt" \in Names(arguments) /\ ValueOf(arguments, "prompt").t = "scalar"
    THEN << <<MessageKey(0, "role"), Scalar("user")>>,
            <<MessageKey(0, "content"), ValueOf(arguments, "prompt")>> >>
    ELSE <<>>
LlmInputMessages(arguments) ==
    IF "prompt" \in Names(arguments) /\ ValueOf(arguments, "prompt").t = "scalar"
    THEN << <<MessageKey(0, "role"), Scalar("user")>>,
            <<MessageKey(0, "content"), ValueOf(arguments, "prompt")>> >>
    ELSE IF "messages" \in Names(arguments) /\ ValueOf(arguments, "messages").t = "list"
    THEN MessageAttributes(ValueOf(arguments, "messages").items, 1)
    ELSE <<>>

LlmAttributes(stored, arguments) ==
    [messages |-> LlmInputMessages(arguments),
     parameters |-> LlmInvocationParameters(stored, arguments)]

(***************************************************************************)
(* The bound arguments and stored configurations the two helpers are       *)
(* applied to: a prompt, a message list of at most MaxMessages messages    *)
(* and a keyword container, supplied in that order, next to the model's    *)
(* stored configuration.                                                   *)
(***************************************************************************)
Prompts == { None, Scalar("p"), List(<<>>) }
Roles == { "absent", "none", "user", "system" }
Contents == { "none", "hi" }
Field(name, choice) ==
    IF choice = "absent" THEN <<>>
    ELSE << <<name, IF choice = "none" THEN None ELSE Scalar(choice)>> >>
MessageValues ==
    { Map(Field("role", r) \o Field("content", c)) : r \in Roles, c \in Contents }
    \cup { Scalar("text") }
ParameterNames == { "temperature", "top_p" }

LlmInit ==
    /\ largs = <<>>
    /\ lmodel \in { Map(<<>>), Scalar("cfg") }
    /\ lres = LlmAttributes(lmodel, largs)
    /\ FlattenIdle
    /\ BindIdle
    /\ WrapIdle
    /\ EncodeIdle
    /\ AgentIdle

LlmSupply(name, value) ==
    /\ largs' = Append(largs, <<name, value>>)
    /\ lres' = LlmAttributes(lmodel, largs')
    /\ UNCHANGED <<lmodel, flattenVars, bindVars, wrapVars, encodeVars, agentVars>>

\* the call is made with a prompt
LlmPrompt ==
    /\ largs = <<>>
    /\ \E prompt \in Prompts : LlmSupply("prompt", prompt)

\* the call is made with messages: a list, or something that is not a list
LlmMessages ==
    /\ Names(largs) \subseteq {"prompt"}
    /\ \E messages \in { List(<<>>), Scalar("m") } : LlmSupply("messages", messages)

\* one more message in the list
LlmAddMessage ==
    /\ largs # <<>> /\ largs[Len(largs)][1] = "messages"
    /\ largs[Len(largs)][2].t = "list"
    /\ Len(largs[Len(largs)][2].items) < MaxMessages
    /\ \E message \in MessageValues :
          /\ largs' = [largs EXCEPT ![Len(largs)][2].items = Append(@, <<message>>)]
          /\ lres' = LlmAttributes(lmodel, largs')
    /\ UNCHANGED <<lmodel, flattenVars, bindVars, wrapVars, encodeVars, agentVars>>

\* the call's keyword container: a mapping, or something that is not a mapping
LlmKwargs ==
    /\ "kwargs" \notin Names(largs)
    /\ \E kwargs \in { Map(<<>>), Scalar("k") } : LlmSupply("kwargs", kwargs)

\* one more per-call keyword override
LlmAddKwarg ==
    /\ largs # <<>> /\ largs[Len(largs)][1] = "kwargs"
    /\ largs[Len(largs)][2].t = "map"
    /\ \E name \in ParameterNames \ KeysOf(largs[Len(largs)][2]) :
          /\ largs' = [largs EXCEPT ![Len(largs)][2].items = Append(@, <<name, Scalar("call")>>)]
          /\ lres' = LlmAttributes(lmodel, largs')
    /\ UNCHANGED <<lmodel, flattenVars, bindVars, wrapVars, encodeVars, agentVars>>

\* one more entry in the model's stored keyword configuration
LlmConfigure ==
    /\ lmodel.t = "map"
    /\ \E name \in ParameterNames \ KeysOf(lmodel) :
          /\ lmodel' = [lmodel EXCEPT !.items = Append(@, <<name, Scalar("stored")>>)]
          /\ lres' = LlmAttributes(lmodel', largs)
    /\ UNCHANGED <<largs, flattenVars, bindVars, wrapVars, encodeVars, agentVars>>

LlmNext ==
    \/ LlmPrompt \/ LlmMessages \/ LlmAddMessage
    \/ LlmKwargs \/ LlmAddKwarg \/ LlmConfigure

SpecLlm == LlmInit /\ [][LlmNext]_vars

\* lines 319-330: the attributes the span is started with
ModelSpan(arguments, context) ==
    StartSpan("HfApiModel.__call__",
              << <<OPENINFERENCE_SPAN_KIND, Scalar("LLM")>> >>
              \o InputValueAndMimeType(arguments)
              \o LlmInvocationParameters(Map(<<>>), arguments)
              \o LlmInputMessages(arguments)
              \o context)

ModelEnter ==
    /\ CanEnter("Model")
    /\ \E call \in ModelCalls, suppressed \in BOOLEAN, context \in Contexts,
          instance \in BOOLEAN :
          LET bound == BindArguments(ModelSignature, call.args, call.kwargs)
              frame == Frame("Model", suppressed, call, instance, context)
          IN  IF SuppressionActive(suppressed)
              THEN PushRunning(SuppressedFrame("Model", call, instance, context))
              ELSE IF bound.err
              THEN PushDone([frame EXCEPT !.out = Raised(BindingTypeError)])
              ELSE \E counts \in TokenCounts :
                      PushRunning(InvokeWrapped(
                       [frame EXCEPT !.span = ModelSpan(bound.arguments, context),
                                     !.before = counts]))
    /\ UNCHANGED <<agentTask, flattenVars, bindVars, encodeVars, llmVars, agentVars>>

\* lines 337-348, the wrapped model call returned; exports tells whether the
\* output message has a model_dump_json method (a message object) or is a plain string
ModelReturn ==
    /\ Unsuppressed("Model")
    /\ \E result \in Results \ {"none"}, exports \in BOOLEAN, counts \in TokenCounts :
          LET frame == [Top EXCEPT !.wrapped = Returned(result), !.after = counts]
              read == ReadCounters(Top.before, counts)
              counted == SetAttribute(
                             SetAttributes(Top.span,
                                 << <<LLM_TOKEN_COUNT_PROMPT, Number(read.input)>>,
                                    <<LLM_TOKEN_COUNT_COMPLETION, Number(read.output)>>,
                                    <<LLM_MODEL_NAME, Scalar("model_id")>> >>),
                             LLM_TOKEN_COUNT_TOTAL, Number(read.input + read.output))
              output == SetAttributes(
                            SetAttribute(SetStatus(counted, "OK", ""), OUTPUT_VALUE,
                                         IF exports THEN None ELSE Scalar(result)),
                            IF exports
                            THEN << <<"llm.output_messages.0.message.role", Scalar("assistant")>>,
                                    <<"llm.output_messages.0.message.content", Scalar(result)>> >>
                            ELSE <<>>)
              dumped == SetAttributes(output,
                            << <<OUTPUT_MIME_TYPE, Scalar("application/json")>>,
                               <<OUTPUT_VALUE, Scalar("{\"content\": \"" \o result \o "\"}")>> >>)
          IN  IF ~Top.instance
              THEN Finish(Exit(frame, Top.span, Raised(AttributeError)))
              ELSE IF ~exports
              THEN Finish(Exit(frame, output, Raised(AttributeError)))
              ELSE Finish(Exit(frame, dumped, Returned(result)))
    /\ UNCHANGED <<agentTask, flattenVars, bindVars, encodeVars, llmVars, agentVars>>

(***************************************************************************)
(* _ToolCallWrapper.__call__                                               *)
(***************************************************************************)
ToolSignature == << Param("query", "pos", FALSE) >>

ToolCalls ==
    { Call(<< Scalar("x") >>, <<>>),
      Call(<<>>, << <<"query", Scalar("x")>> >>),
      Call(<<>>, <<>>) }

\* lines 364-384: the span as started
ToolSpan(input_value) ==
    StartSpan("DuckDuckGoSearchTool",
              Flatten(Map(<< <<OPENINFERENCE_SPAN_KIND, Scalar("TOOL")>>,
                             <<INPUT_VALUE, Scalar(input_value)>> >>)).out)

\* lines 385-386
ToolCallAttributes(span, call) ==
    SetAttributes(span,
        << <<TOOL_CALL_FUNCTION_NAME, Scalar("web_search")>>,
           <<TOOL_CALL_FUNCTION_ARGUMENTS_JSON, Scalar(Dumps(Map(call.kwargs)))>> >>)

ToolEnter ==
    /\ CanEnter("Tool")
    /\ \E call \in ToolCalls, suppressed \in BOOLEAN, context \in Contexts,
          instance \in BOOLEAN :
          LET input == GetInputValue(ToolSignature, call.args, call.kwargs)
              frame == Frame("Tool", suppressed, call, instance, context)
          IN  IF SuppressionActive(suppressed)
              THEN PushRunning(SuppressedFrame("Tool", call, instance, context))
              ELSE IF input.err
              THEN PushDone([frame EXCEPT !.out = Raised(BindingTypeError)])
              ELSE IF ~instance
              THEN PushDone(Exit(frame, ToolSpan(input.json), Raised(AttributeError)))
              ELSE PushRunning(InvokeWrapped(
                       [frame EXCEPT !.span = ToolCallAttributes(ToolSpan(input.json), call)]))
    /\ UNCHANGED <<agentTask, flattenVars, bindVars, encodeVars, llmVars, agentVars>>

\* lines 388-396, the wrapped tool call returned
ToolReturn ==
    /\ Unsuppressed("Tool")
    /\ \E result \in Results :
          LET span == SetAttributes(
                          SetAttribute(SetStatus(Top.span, "OK", ""), OUTPUT_VALUE,
                                       IF result = "none" THEN None ELSE Scalar(result)),
                          Top.context)
          IN  Finish(Exit([Top EXCEPT !.wrapped = Returned(result)], span, Returned(result)))
    /\ UNCHANGED <<agentTask, flattenVars, bindVars, encodeVars, llmVars, agentVars>>

(***************************************************************************)
(* The wrappers at work: interceptions start, nest, and complete.          *)
(***************************************************************************)
Init ==
    /\ WrapIdle
    /\ FlattenIdle
    /\ BindIdle
    /\ EncodeIdle
    /\ LlmIdle
    /\ AgentIdle

Next ==
    \/ RunEnter \/ StepEnter \/ ModelEnter \/ ToolEnter
    \/ RunReturn \/ StepReturn \/ ModelReturn \/ ToolReturn
    \/ WrappedRaises
    \/ SuppressedReturns \/ SuppressedRaises
    \/ Deliver

Spec == Init /\ [][Next]_vars

(***************************************************************************)
(* Properties of the wrappers.  A wrapper's outcome is read off its frame  *)
(* once the frame is done, while it is still at the top of the stack.      *)
(***************************************************************************)
Frames == { stack[i] : i \in 1..Len(stack) }
Completed == { f \in Frames : f.pc = "done" }

\* the call satisfies the declared signature: arity, names and required parameters
Satisfies(params, call) ==
    LET declared == { i \in 1..Len(params) : params[i].kind = "pos" }
        positional == { i \in declared : i <= Len(call.args) }
    IN  /\ Len(call.args) <= Cardinality(declared)
           \/ \E i \in 1..Len(params) : params[i].kind = "varpos"
        /\ \A name \in Names(call.kwargs) :
              /\ name \notin { params[i].name : i \in positional }
              /\ name \in { params[i].name : i \in declared }
                 \/ \E i \in 1..Len(params) : params[i].kind = "varkw"
        /\ \A i \in declared \ positional :
              params[i].default \/ params[i].name \in Names(call.kwargs)

SignatureOf(w) ==
    CASE w = "Run" -> RunSignature
      [] w = "Model" -> ModelSignature
      [] w = "Tool" -> ToolSignature
      [] OTHER -> << Param("memory_step", "pos", FALSE) >>

C2_SuppressedPassThrough ==
    \A i \in 1..Len(stack) :
        stack[i].suppressed =>
            /\ stack[i].span = NoSpan
            /\ \A j \in 1..Len(current) : current[j] # i
            /\ stack[i].passed = << stack[i].call >>
            /\ stack[i].pc = "done" =>
                  /\ stack[i].wrapped.kind # "none"
                  /\ stack[i].out = stack[i].wrapped

\* a suppressed tool call without an instance and with arguments that do not bind
C2_Witness ==
    /\ stack # <<>>
    /\ Top.pc = "done" /\ Top.suppressed /\ Top.w = "Tool"
    /\ ~Top.instance /\ ~Satisfies(ToolSignature, Top.call)
    /\ Top.out = Returned("r1")

(***************************************************************************)
(* C3 as claimed: suppression inactive and arguments that satisfy the      *)
(* wrapped signature: wrapped is called exactly once, and whenever it      *)
(* returns R the wrapper returns R and raises nothing of its own, whatever *)
(* the shape of the instance, step log and result.                         *)
(***************************************************************************)
C3_Original ==
    \A f \in Completed :
        (~f.suppressed /\ Satisfies(SignatureOf(f.w), f.call)) =>
            /\ Len(f.passed) = 1
            /\ f.wrapped.kind = "return" => f.out = Returned(f.wrapped.value)

(***************************************************************************)
(* C4 as claimed: in all four wrappers, on a successful interception the   *)
(* closed span holds the ambient context's value for every key of the      *)
(* ambient context, the context being written last.                        *)
(***************************************************************************)
C4_Original ==
    \A f \in Completed :
        (~f.suppressed /\ f.wrapped.kind = "return" /\ f.out.kind = "return") =>
            Range(f.context) \subseteq Range(f.span.attributes)

(***************************************************************************)
(* C5: every unsuppressed interception that calls wrapped has opened       *)
(* exactly one span before the call; the span is open and current while    *)
(* wrapped runs and is closed exactly once when the wrapper returns or     *)
(* raises.  The tracer's current spans are exactly those of the running    *)
(* interceptions, in nesting order, so spans close last-opened-first, and  *)
(* none is open once the outermost wrapper is done.                        *)
(***************************************************************************)
RunningSpans == { i \in 1..Len(stack) : stack[i].pc = "running" /\ ~stack[i].suppressed }

C5_SpansNestAndClose ==
    /\ \A i \in 1..Len(stack) :
          /\ (~stack[i].suppressed /\ stack[i].passed # <<>>) => stack[i].span.started
          /\ i \in RunningSpans => stack[i].span.started /\ stack[i].span.ends = 0
          /\ (stack[i].pc = "done" /\ stack[i].span.started) => stack[i].span.ends = 1
          /\ (stack[i].pc = "done" /\ ~stack[i].suppressed /\ stack[i].wrapped.kind # "none")
                => stack[i].span.ends = 1
    /\ Len(current) = Cardinality(RunningSpans)
    /\ \A j \in 1..Len(current) :
          /\ current[j] \in RunningSpans
          /\ \A k \in 1..(j - 1) : current[k] < current[j]
    /\ (stack = <<>> \/ (Len(stack) = 1 /\ Top.pc = "done")) => current = <<>>

\* a model call fails inside a step inside a run: its span is closed, theirs are open
C5_Witness ==
    /\ Len(stack) = 3
    /\ stack[1].w = "Run" /\ stack[2].w = "Step" /\ stack[3].w = "Model"
    /\ \A i \in 1..3 : ~stack[i].suppressed
    /\ Top.pc = "done" /\ Top.wrapped.kind = "raise" /\ Top.span.ends = 1
    /\ current = <<1, 2>>

(***************************************************************************)
(* C6: in the Run, Model and Tool wrappers, suppression inactive, when the *)
(* arguments do not satisfy the wrapped signature the binding error        *)
(* propagates to the caller, no span is started and wrapped is never       *)
(* called.                                                                 *)
(***************************************************************************)
C6_BindingErrorPropagates ==
    \A f \in Frames :
        (f.w \in {"Run", "Model", "Tool"} /\ ~f.suppressed /\ ~Satisfies(SignatureOf(f.w), f.call)) =>
            /\ f.pc = "done"
            /\ f.out = Raised(BindingTypeError)
            /\ f.span = NoSpan
            /\ f.passed = <<>>
            /\ f.wrapped = Nothing

\* a model called without its required messages, inside a run
C6_Witness ==
    /\ Len(stack) = 2
    /\ Top.w = "Model" /\ ~Top.suppressed /\ Top.pc = "done"
    /\ Top.call = Call(<<>>, <<>>)
    /\ Top.out = Raised(BindingTypeError)
    /\ current = <<1>>

(***************************************************************************)
(* C12 as claimed: the span of an unsuppressed run has its `task`          *)
(* attribute and its input value equal to the task text of the run being   *)
(* intercepted, and `max_steps` equal to the agent's budget, whatever the  *)
(* agent's task field held before the call.                                *)
(***************************************************************************)
C12_Original ==
    \A f \in Frames :
        (f.w = "Run" /\ ~f.suppressed /\ f.span.started) =>
            LET task == Scalar(TaskOf(f.call, "none"))
            IN  /\ HasAttribute(f.span, "task") /\ Attribute(f.span, "task") = task
                /\ Attribute(f.span, INPUT_VALUE) = task
                /\ Attribute(f.span, "max_steps") = Scalar("max_steps")

(***************************************************************************)
(* C13: the input-message attributes come from exactly one source, read   *)
(* from the bound arguments `prompt` and `messages` of the call.  If a     *)
(* free-text prompt is supplied, they are exactly message 0 with role      *)
(* "user" and the prompt as content, even when a message list is supplied  *)
(* too.  Otherwise, for a supplied list, the mapping at position i yields  *)
(* llm.input_messages.<i>.message.role / .content with its own role and    *)
(* content, an absent (missing or None) role or content yielding no        *)
(* attribute, and nothing else is yielded.                                 *)
(***************************************************************************)
SuppliedPrompt == "prompt" \in Names(largs) /\ ValueOf(largs, "prompt").t = "scalar"

SuppliedMessages ==
    IF "messages" \in Names(largs) /\ ValueOf(largs, "messages").t = "list"
    THEN ValueOf(largs, "messages").items
    ELSE <<>>

Present(message, name) ==
    /\ message.t = "map"
    /\ name \in Names(message.items)
    /\ ValueOf(message.items, name).t # "none"

C13_InputMessagesOneSource ==
    IF SuppliedPrompt
    THEN lres.messages = << <<"llm.input_messages.0.message.role", Scalar("user")>>,
                            <<"llm.input_messages.0.message.content", ValueOf(largs, "prompt")>> >>
    ELSE LET fields == (1..Len(SuppliedMessages)) \X {"role", "content"}
             key(f) == "llm.input_messages." \o ToString(f[1] - 1) \o ".message." \o f[2]
             message(f) == SuppliedMessages[f[1]][1]
         IN  /\ \A f \in fields :
                   IF Present(message(f), f[2])
                   THEN <<key(f), ValueOf(message(f).items, f[2])>> \in Range(lres.messages)
                   ELSE key(f) \notin Names(lres.messages)
             /\ Len(lres.messages) = Cardinality({ f \in fields : Present(message(f), f[2]) })

\* prompt=None, messages=[{"content": "hi"}, {"role": "system", "content": None}]
C13_Witness ==
    /\ largs = << <<"prompt", None>>,
                  <<"messages", List(<< << Map(<< <<"content", Scalar("hi")>> >>) >>,
                                        << Map(<< <<"role", Scalar("system")>>,
                                                  <<"content", None>> >>) >> >>)>> >>
    /\ lres.messages = << <<"llm.input_messages.0.message.content", Scalar("hi")>>,
                          <<"llm.input_messages.1.message.role", Scalar("system")>> >>

(***************************************************************************)
(* C14 as claimed: whatever exception the wrapped call raises, also one    *)
(* whose text is the empty string, the span of the failed interception     *)
(* carries ERROR status with a non-empty message.                          *)
(***************************************************************************)
C14_Original ==
    \A f \in Completed :
        (~f.suppressed /\ f.wrapped.kind = "raise") =>
            f.span.status = "ERROR" /\ f.span.description # ""

(***************************************************************************)
(* C14 as amended: whatever exception the wrapped call raises, the span of *)
(* the failed interception carries ERROR status and its message is the     *)
(* text of the exception: non-empty when the text is non-empty, and the    *)
(* empty string when the exception's text is empty.                        *)
(***************************************************************************)
C14_ErrorMessageIsExceptionText ==
    \A f \in Completed :
        (~f.suppressed /\ f.wrapped.kind = "raise") =>
            /\ f.span.status = "ERROR"
            /\ f.wrapped.exception.text # "" => f.span.description = f.wrapped.exception.text
            /\ f.wrapped.exception.text = "" => f.span.description = ""

\* a model call raising an exception without text, e.g. ValueError()
C14_Witness ==
    /\ stack # <<>>
    /\ Top.pc = "done" /\ Top.w = "Model" /\ ~Top.suppressed
    /\ Top.wrapped = Raised(Exception("e2", ""))
    /\ Top.span.status = "ERROR" /\ Top.span.description = ""

(***************************************************************************)
(* C15 as claimed: every span closed by a wrapper has a final status of OK *)
(* or ERROR, never unset: OK exactly when the wrapper returned a result to *)
(* its caller, ERROR with a recorded exception exactly when an exception   *)
(* propagated out of the wrapper.                                          *)
(***************************************************************************)
C15_Original ==
    \A f \in Completed :
        (f.span.started /\ f.span.ends > 0) =>
            /\ f.span.status \in {"OK", "ERROR"}
            /\ f.span.status = "OK" <=> f.out.kind = "return"
            /\ f.span.status = "ERROR" <=> (f.out.kind = "raise" /\ f.span.events # <<>>)

(***************************************************************************)
(* C16: in the Run and Model wrappers, the prompt and completion token     *)
(* counts on the span are the counter values read after the wrapped call   *)
(* has completed, never those at entry, and the total is the sum of those  *)
(* same two values; when the wrapped call raises, the span has no          *)
(* token-count attribute.                                                  *)
(***************************************************************************)
TokenCountKeys == { LLM_TOKEN_COUNT_PROMPT, LLM_TOKEN_COUNT_COMPLETION, LLM_TOKEN_COUNT_TOTAL }

C16_TokenCountsReadAfterCall ==
    \A f \in Completed :
        (f.w \in {"Run", "Model"} /\ ~f.suppressed) =>
            /\ f.out.kind = "return" =>
                  /\ Attribute(f.span, LLM_TOKEN_COUNT_PROMPT) = Scalar(ToString(f.after.input))
                  /\ Attribute(f.span, LLM_TOKEN_COUNT_COMPLETION) = Scalar(ToString(f.after.output))
                  /\ Attribute(f.span, LLM_TOKEN_COUNT_TOTAL)
                        = Scalar(ToString(f.after.input + f.after.output))
            /\ f.wrapped.kind = "raise" => Names(f.span.attributes) \cap TokenCountKeys = {}

\* monitor counts (10, 5) after the run, (0, 0) before: the total is 15
C16_Witness ==
    /\ stack # <<>>
    /\ Top.pc = "done" /\ Top.w = "Run" /\ ~Top.suppressed /\ Top.out.kind = "return"
    /\ Top.before = [input |-> 0, output |-> 0]
    /\ Top.after = [input |-> 10, output |-> 5]
    /\ Attribute(Top.span, LLM_TOKEN_COUNT_TOTAL) = Scalar("15")

(***************************************************************************)
(* C17 as claimed: when the sequence under a key K holds at least one      *)
(* mapping and also elements that are not mappings, _flatten does not      *)
(* raise, and every scalar element, at position i, is emitted under        *)
(* `K.<i>` (an absent element being skipped): no non-absent element is     *)
(* dropped.                                                                *)
(***************************************************************************)
MixedSequence(value) ==
    /\ value.t = "list"
    /\ \E i \in 1..Len(value.items) : value.items[i][1].t = "map"
    /\ \E i \in 1..Len(value.items) : value.items[i][1].t # "map"

C17_Original ==
    \A e \in 1..Len(fm.items) :
        MixedSequence(fm.items[e][2]) =>
            /\ ~fres.err
            /\ \A i \in 1..Len(fm.items[e][2].items) :
                  LET element == fm.items[e][2].items[i][1]
                  IN  element.t = "scalar" =>
                         <<fm.items[e][1] \o "." \o ToString(i - 1), element>> \in Range(fres.out)

(***************************************************************************)
(* C18 as claimed: when a wrapped step returns normally and its step log   *)
(* records an error, the Step span gets an `Error` attribute holding the   *)
(* error text while its status is OK and no exception is recorded; the     *)
(* output value is the step log's observation text (unless the ambient     *)
(* context supplies one), and the final-answer attribute is attached       *)
(* exactly when the step returned a result that is not None.               *)
(***************************************************************************)
C18_Original ==
    \A f \in Completed :
        (f.w = "Step" /\ ~f.suppressed /\ f.wrapped.kind = "return" /\ f.log.error # None) =>
            /\ HasAttribute(f.span, "Error") /\ Attribute(f.span, "Error") = f.log.error
            /\ f.span.status = "OK"
            /\ f.span.events = <<>>
            /\ OUTPUT_VALUE \notin Names(f.context) =>
                  /\ HasAttribute(f.span, OUTPUT_VALUE)
                  /\ Attribute(f.span, OUTPUT_VALUE) = f.log.observations
            /\ HasAttribute(f.span, "Final answer") <=> f.wrapped.value # "none"

(***************************************************************************)
(* C19: the invocation-parameters attribute is the serialized union of the *)
(* model's stored keyword configuration and the per-call keyword           *)
(* overrides: every key of either appears once, a key present in both      *)
(* carries the per-call value, and a stored configuration or override      *)
(* container that is not a mapping contributes nothing.                    *)
(***************************************************************************)
StoredConfiguration == IF lmodel.t = "map" THEN lmodel.items ELSE <<>>

Overrides ==
    IF "kwargs" \in Names(largs) /\ ValueOf(largs, "kwargs").t = "map"
    THEN ValueOf(largs, "kwargs").items
    ELSE <<>>

ExpectedParameters ==
    [i \in 1..Len(StoredConfiguration) |->
        IF StoredConfiguration[i][1] \in Names(Overrides)
        THEN <<StoredConfiguration[i][1], ValueOf(Overrides, StoredConfiguration[i][1])>>
        ELSE StoredConfiguration[i]]
    \o SelectSeq(Overrides, LAMBDA e : e[1] \notin Names(StoredConfiguration))

C19_InvocationParametersUnion ==
    lres.parameters =
        << <<"llm.invocation_parameters", Scalar(Dumps(Map(ExpectedParameters)))>> >>

\* stored {"temperature", "top_p"}, the call overriding top_p
C19_Witness ==
    /\ lmodel = Map(<< <<"temperature", Scalar("stored")>>, <<"top_p", Scalar("stored")>> >>)
    /\ "kwargs" \in Names(largs)
    /\ ValueOf(largs, "kwargs") = Map(<< <<"top_p", Scalar("call")>> >>)
    /\ lres.parameters =
          << <<"llm.invocation_parameters",
               Scalar("{\"temperature\": \"stored\", \"top_p\": \"call\"}")>> >>

(***************************************************************************)
(* C20 as claimed: in the managed-agent summary of the Run span, the entry *)
(* of each managed agent describes that agent: its tool names are the      *)
(* managed agent's own tools, its max_steps the managed agent's budget,    *)
(* and its model descriptor holds the managed model's type name, followed  *)
(* by the model id only when the managed model has one.                    *)
(***************************************************************************)
C20_Original ==
    \A i \in 1..Len(agent.managed) :
        LET sub == agent.managed[i].agent
            entry == ares.managed.items[i][1].items
        IN  /\ ValueOf(entry, "tools_names")
                  = List([k \in 1..Len(sub.tools) |-> << Scalar(sub.tools[k]) >>])
            /\ ValueOf(entry, "max_steps") = Scalar(sub.max_steps)
            /\ ValueOf(entry, "model")
                  = Scalar(IF sub.model.model_id = "" THEN sub.model.type
                           ELSE sub.model.type \o " - " \o sub.model.model_id)

(***************************************************************************)
(* C21 as claimed: after binding, declared defaults are applied: the input *)
(* value computed by _get_input_value has an entry for each parameter that *)
(* has a declared default and was not supplied, so a call that omits a     *)
(* defaulted parameter and a call that passes the default (None here)      *)
(* explicitly produce the same input value.                                *)
(***************************************************************************)
UnsuppliedDefaults ==
    { i \in 1..Len(bsig) :
         /\ bsig[i].kind = "pos" /\ bsig[i].default
         /\ bsig[i].name \notin {"self", "kwargs"}
         /\ bsig[i].name \notin Names(BoundArguments(bsig, bargs, bkwargs).arguments) }

C21_Original ==
    ~bres.err =>
        \A i \in UnsuppliedDefaults :
            /\ bsig[i].name \in Names(bres.map)
            /\ GetInputValue(bsig, bargs, Append(bkwargs, <<bsig[i].name, None>>)) = bres

====
